---- MODULE Spec2Model ----
(***************************************************************************)
(* A model of the position-aware tokenizer and the transition-model        *)
(* training scripts of readable-hash-rs (src/models).                       *)
(*                                                                         *)
(* Strings of the program are sequences of one-character strings: a word   *)
(* is a sequence over the lowercase alphabet, a token label is a sequence  *)
(* over the alphabet and the two boundary markers.  A placeholder label    *)
(* "[UNUSED_BEG_3]" is a one-element sequence holding that text.           *)
(***************************************************************************)
EXTENDS Integers, Sequences, FiniteSets, TLC

VARIABLES
    \* tokenize_word: its arguments and locals, and where it stands
    word, vocab, tokens, position, tok_pc,
    \* main of tokenize.py: where it stands, its locals and the files it writes
    pc, all_words, beginning_counts, end_counts, middle_counts, word_index,
    beginning_next_counts, beginning_end_counts,
    four_gram_counts, four_gram_a_counts, four_gram_ab_counts, four_gram_abc_counts,
    model_data, tokenizer_file, model_file, exit_code,
    \* the quantizer: its parameters, one context's raw counts, its output
    q_pc, q_bits, q_temperature, q_smoothing_alpha, q_counts, q_weights,
    \* train_ngram: its arguments, its locals and the file it writes
    ng_pc, ng_n, ng_start_id, ng_end_id, ng_lines, ng_line_index,
    ng_counts, ng_totals, ng_output,
    \* the interpreter's per-process string hash seed (PYTHONHASHSEED), and what
    \* an earlier run of main on the same words produced
    hash_seed, first_run

tokVars == <<word, vocab, tokens, position, tok_pc>>

ngramCountVars == <<beginning_counts, end_counts, middle_counts>>

transitionVars ==
    <<beginning_next_counts, beginning_end_counts,
      four_gram_counts, four_gram_a_counts, four_gram_ab_counts, four_gram_abc_counts>>

outputVars == <<model_data, tokenizer_file, model_file, exit_code>>

mainVars == <<pc, all_words, word_index, ngramCountVars, transitionVars, outputVars>>

qVars == <<q_pc, q_bits, q_temperature, q_smoothing_alpha, q_counts, q_weights>>

ngVars == <<ng_pc, ng_n, ng_start_id, ng_end_id, ng_lines, ng_line_index,
            ng_counts, ng_totals, ng_output>>

runVars == <<hash_seed, first_run>>

vars == <<tokVars, mainVars, qVars, ngVars, runVars>>

----------------------------------------------------------------------------
(* Constants of tokenize.py *)

BOS == "^"
EOS == "$"

\* the longest substring tokenize_word looks up; also max_ngram's default
MAX_TOKEN_LENGTH == 6

Min(a, b) == IF a < b THEN a ELSE b

\* dict: `key in d`
InDict(key, d) == key \in DOMAIN d

\* dict: d[key] = value (a new key is added, an existing one overwritten)
DictSet(d, key, value) ==
    [k \in (DOMAIN d) \cup {key} |-> IF k = key THEN value ELSE d[k]]

EmptyDict == [k \in {} |-> 0]

----------------------------------------------------------------------------
(* tokenize_word *)

\* an off-by-one slice, word[position : position + length - 1]
SubstringShort(w, pos, length) == SubSeq(w, pos + 1, pos + length - 1)

\* word[position : position + length], position counted from 0
Substring(w, pos, length) == SubSeq(w, pos + 1, pos + length)

NoToken == [found |-> FALSE, token |-> <<>>, length |-> 0]

Hit(candidate, length) == [found |-> TRUE, token |-> candidate, length |-> length]

\* the lookups of one length with the end form looked up at every position
TryLengthEndAnywhere(w, v, pos, length) ==
    LET substring == Substring(w, pos, length)
    IN  IF pos = 0 /\ InDict(<<BOS>> \o substring, v)
        THEN Hit(<<BOS>> \o substring, length)
        ELSE IF InDict(substring \o <<EOS>>, v)
        THEN Hit(substring \o <<EOS>>, length)
        ELSE IF InDict(substring, v)
        THEN Hit(substring, length)
        ELSE NoToken

\* The body of the `for length` loop for one length: the four lookups in the
\* order of the code, each guarded by its own `if`, the first hit breaking.
TryLength(w, v, pos, length) ==
    LET substring    == Substring(w, pos, length)
        is_beginning == pos = 0
        reaches_end  == pos + length = Len(w)
    IN  IF is_beginning /\ reaches_end /\ InDict(<<BOS>> \o substring \o <<EOS>>, v)
        THEN Hit(<<BOS>> \o substring \o <<EOS>>, length)
        ELSE IF is_beginning /\ InDict(<<BOS>> \o substring, v)
        THEN Hit(<<BOS>> \o substring, length)
        ELSE IF reaches_end /\ InDict(substring \o <<EOS>>, v)
        THEN Hit(substring \o <<EOS>>, length)
        ELSE IF InDict(substring, v)
        THEN Hit(substring, length)
        ELSE NoToken

\* a search that tries the shortest length first
SearchShortestFirst(w, v, pos, length) ==
    LET hits == {l \in 1..length : TryLength(w, v, pos, l).found}
    IN  IF hits = {} THEN NoToken
        ELSE TryLength(w, v, pos, CHOOSE l \in hits : \A m \in hits : l <= m)

\* for length in range(min(6, len(word) - position), 0, -1)
RECURSIVE SearchFrom(_, _, _, _)
SearchFrom(w, v, pos, length) ==
    IF length <= 0 THEN NoToken
    ELSE LET r == TryLength(w, v, pos, length)
         IN  IF r.found THEN r ELSE SearchFrom(w, v, pos, length - 1)

\* the search started at the whole remaining word, without the cap of 6
FirstLengthUncapped(w, pos) == Len(w) - pos

FirstLength(w, pos) == Min(MAX_TOKEN_LENGTH, Len(w) - pos)

Search(w, v, pos) == SearchFrom(w, v, pos, FirstLength(w, pos))

\* a fallback that marks every character as the end of the word
FallbackEndMarked(w, pos) == [found |-> FALSE, token |-> <<w[pos + 1], EOS>>, length |-> 1]

\* if best_token is None: the single-character fallback
Fallback(w, pos) ==
    LET is_beginning == pos = 0
        is_end       == pos = Len(w) - 1
        c            == w[pos + 1]
    IN  IF is_beginning THEN [found |-> FALSE, token |-> <<BOS, c>>, length |-> 1]
        ELSE IF is_end  THEN [found |-> FALSE, token |-> <<c, EOS>>, length |-> 1]
        ELSE                 [found |-> FALSE, token |-> <<c>>, length |-> 1]

\* One iteration of the while loop: the token appended and the length consumed
\* (found = FALSE: the token comes from the fallback).
LoopBody(w, v, pos) ==
    LET r == Search(w, v, pos)
    IN  IF r.found THEN r ELSE Fallback(w, pos)

RECURSIVE TokenizeFrom(_, _, _, _)
TokenizeFrom(w, v, pos, acc) ==
    IF pos < Len(w)
    THEN LET r == LoopBody(w, v, pos)
         IN  TokenizeFrom(w, v, pos + r.length, Append(acc, r.token))
    ELSE acc

tokenize_word(w, v) == IF Len(w) = 0 THEN <<>> ELSE TokenizeFrom(w, v, 0, <<>>)

----------------------------------------------------------------------------
(* collections.Counter: the keys in first-seen order, each with its count  *)

\* counter[key] += 1
CounterInc(counter, key) ==
    IF \E i \in 1..Len(counter) : counter[i].key = key
    THEN [i \in 1..Len(counter) |->
            IF counter[i].key = key
            THEN [key |-> key, count |-> counter[i].count + 1]
            ELSE counter[i]]
    ELSE Append(counter, [key |-> key, count |-> 1])

\* counter[key] += 1 for every key of `keys`, in order: the keys already
\* counted keep their places, the new ones follow in the order first seen
CounterIncAll(counter, keys) ==
    LET Occurrences(k) == Cardinality({i \in 1..Len(keys) : keys[i] = k})
        known == {counter[i].key : i \in 1..Len(counter)}
        first == {i \in 1..Len(keys) :
                     /\ keys[i] \notin known
                     /\ \A j \in 1..(i - 1) : keys[j] /= keys[i]}
    IN  [i \in 1..Len(counter) |->
            [key |-> counter[i].key, count |-> counter[i].count + Occurrences(counter[i].key)]]
        \o
        [p \in 1..Cardinality(first) |->
            LET i == CHOOSE x \in first : Cardinality({y \in first : y < x}) = p - 1
            IN  [key |-> keys[i], count |-> Occurrences(keys[i])]]

\* counter.get(key, 0)
CounterGet(counter, key) ==
    IF \E i \in 1..Len(counter) : counter[i].key = key
    THEN counter[CHOOSE i \in 1..Len(counter) : counter[i].key = key].count
    ELSE 0

CounterKeys(counter) == {counter[i].key : i \in 1..Len(counter)}

RECURSIVE SumCounts(_)
\* sum(counter.values())
SumCounts(counter) ==
    IF counter = <<>> THEN 0 ELSE Head(counter).count + SumCounts(Tail(counter))

\* The element at place p (from 1) of sorted(seq, key=...), a stable sort:
\* Before(x, y) holds when x's key is strictly smaller than y's, and elements
\* with equal keys keep their order.
SortedAt(seq, Before(_, _), p) ==
    LET n == Len(seq)
        Ahead(i) == {j \in 1..n : \/ Before(seq[j], seq[i])
                                  \/ (~Before(seq[i], seq[j]) /\ j < i)}
    IN  seq[CHOOSE i \in 1..n : Cardinality(Ahead(i)) = p - 1]

StableSort(seq, Before(_, _)) == [p \in 1..Len(seq) |-> SortedAt(seq, Before, p)]

\* a most_common that cuts to the first n keys seen, without sorting
MostCommonUnsorted(counter, n) == SubSeq(counter, 1, Min(n, Len(counter)))

\* a most_common whose order among equal counts follows the string hashes of
\* the process, as the iteration of a set of the keys would
MostCommonHashOrder(counter, n) ==
    LET keys == IF hash_seed = 0 THEN counter
                ELSE [i \in 1..Len(counter) |-> counter[Len(counter) + 1 - i]]
    IN  [p \in 1..Min(n, Len(keys)) |->
            SortedAt(keys, LAMBDA x, y : x.count > y.count, p)]

\* counter.most_common(n): sorted by count, highest first, equal counts in
\* first-seen order, cut to the first n
most_common(counter, n) ==
    [p \in 1..Min(n, Len(counter)) |->
        SortedAt(counter, LAMBDA x, y : x.count > y.count, p)]

----------------------------------------------------------------------------
(* collect_ngram_counts *)

\* for ngram_len in range(1, min(max_ngram + 1, len(word) + 1))
BeginningNgrams(w) ==
    [l \in 1..Min(MAX_TOKEN_LENGTH, Len(w)) |-> <<BOS>> \o SubSeq(w, 1, l)]

EndNgrams(w) ==
    [l \in 1..Min(MAX_TOKEN_LENGTH, Len(w)) |->
        SubSeq(w, Len(w) - l + 1, Len(w)) \o <<EOS>>]

\* for ngram_len in range(1, min(max_ngram + 1, len(word) - start_pos)):
\*     if start_pos + ngram_len < len(word)
MiddleNgramsAt(w, start_pos) ==
    LET last == Min(MAX_TOKEN_LENGTH + 1, Len(w) - start_pos) - 1
    IN  SelectSeq([l \in 1..last |-> Substring(w, start_pos, l)],
                  LAMBDA g : start_pos + Len(g) < Len(w))

\* for start_pos in range(1, len(word) - 1)
RECURSIVE MiddleNgramsFrom(_, _)
MiddleNgramsFrom(w, start_pos) ==
    IF start_pos >= Len(w) - 1 THEN <<>>
    ELSE MiddleNgramsAt(w, start_pos) \o MiddleNgramsFrom(w, start_pos + 1)

MiddleNgrams(w) == MiddleNgramsFrom(w, 1)

\* the three counters after the words of `words` (for word in words)
RECURSIVE CollectFrom(_, _)
CollectFrom(counts, words) ==
    IF words = <<>> THEN counts
    ELSE LET w == Head(words)
         IN  CollectFrom(
                IF Len(w) = 0 THEN counts
                ELSE [beginning |-> CounterIncAll(counts.beginning, BeginningNgrams(w)),
                      end       |-> CounterIncAll(counts.end, EndNgrams(w)),
                      middle    |-> CounterIncAll(counts.middle, MiddleNgrams(w))],
                Tail(words))

\* a collection that passes over the words of a single character
CollectSkippingShortWords(words) ==
    CollectFrom([beginning |-> <<>>, end |-> <<>>, middle |-> <<>>],
                SelectSeq(words, LAMBDA w : Len(w) > 1))

collect_ngram_counts(words) ==
    CollectFrom([beginning |-> <<>>, end |-> <<>>, middle |-> <<>>], words)

----------------------------------------------------------------------------
(* build_vocabulary *)

\* The band capacities.  The program's are 256, 256 and 512; the model keeps
\* the three bands and their order and scales the capacities down, so that
\* corpora of a few short words both underfill and overflow a band.
NUM_BEGINNING_TOKENS == 3
NUM_END_TOKENS == 3
NUM_MIDDLE_TOKENS == 2
TOTAL_VOCAB_SIZE == NUM_BEGINNING_TOKENS + NUM_END_TOKENS + NUM_MIDDLE_TOKENS

\* f"[UNUSED_BEG_{idx}]"
Placeholder(band, idx) == <<"[UNUSED_" \o band \o "_" \o ToString(idx) \o "]">>

\* a band filled without its placeholders
RECURSIVE FillBandNoPadding(_, _, _, _, _, _)
FillBandNoPadding(v, top, band, offset, capacity, idx) ==
    IF idx >= Len(top) THEN v
    ELSE FillBandNoPadding(DictSet(v, top[idx + 1].key, offset + idx),
                           top, band, offset, capacity, idx + 1)

\* for idx, (token, _) in enumerate(top): vocab[token] = offset + idx
\* for idx in range(len(top), capacity): vocab[placeholder] = offset + idx
RECURSIVE FillBand(_, _, _, _, _, _)
FillBand(v, top, band, offset, capacity, idx) ==
    IF idx >= capacity THEN v
    ELSE FillBand(
            DictSet(v,
                    IF idx < Len(top) THEN top[idx + 1].key ELSE Placeholder(band, idx),
                    offset + idx),
            top, band, offset, capacity, idx + 1)

build_vocabulary(beginning, end, middle) ==
    LET top_beginning == most_common(beginning, NUM_BEGINNING_TOKENS)
        top_end       == most_common(end, NUM_END_TOKENS)
        top_middle    == most_common(middle, NUM_MIDDLE_TOKENS)
        middle_offset == NUM_BEGINNING_TOKENS + NUM_END_TOKENS
        v1 == FillBand(EmptyDict, top_beginning, "BEG", 0, NUM_BEGINNING_TOKENS, 0)
        v2 == FillBand(v1, top_end, "END", NUM_BEGINNING_TOKENS, NUM_END_TOKENS, 0)
    IN  FillBand(v2, top_middle, "MID", middle_offset, NUM_MIDDLE_TOKENS, 0)

----------------------------------------------------------------------------
(* main of tokenize.py: the transition counters *)

\* if len(tokens) < 2 or tokens[1].endswith(EOS): None (an empty sequence)
get_beginning_bigram(ts) ==
    IF Len(ts) < 2 THEN <<>>
    ELSE IF ts[2][Len(ts[2])] = EOS THEN <<>>
    ELSE <<ts[1], ts[2]>>

get_beginning_end_bigram(ts) ==
    IF Len(ts) /= 2 THEN <<>>
    ELSE IF ts[2][Len(ts[2])] /= EOS THEN <<>>
    ELSE <<ts[1], ts[2]>>

\* defaultdict(Counter): counts[first][second] += 1
BigramInc(counts, bigram) ==
    IF bigram = <<>> THEN counts
    ELSE DictSet(counts, bigram[1],
                 CounterInc(IF InDict(bigram[1], counts) THEN counts[bigram[1]] ELSE <<>>,
                            bigram[2]))

\* middle_tokens = tokens[1:-1]
MiddleTokens(ts) == IF Len(ts) <= 2 THEN <<>> ELSE SubSeq(ts, 2, Len(ts) - 1)

\* for index in range(len(middle_tokens) - 3): tuple(middle_tokens[index : index + 4])
FourGrams(ts) ==
    LET m == MiddleTokens(ts)
    IN  [i \in 1..(Len(m) - 3) |-> SubSeq(m, i, i + 3)]

Prefixes(grams, n) == [i \in 1..Len(grams) |-> SubSeq(grams[i], 1, n)]

----------------------------------------------------------------------------
(* main of tokenize.py: the model built from the counters *)

\* the rank of a token that is not in the vocabulary: token_rank.get(token, 10**9)
UNKNOWN_RANK == 1000000000

\* token_rank: the index of the token among the vocabulary's items sorted by id
TokenRank(v, token) ==
    IF InDict(token, v)
    THEN Cardinality({k \in DOMAIN v : v[k] < v[token]})
    ELSE UNKNOWN_RANK

\* token_order: the labels sorted by id
TokenOrder(v) ==
    [i \in 1..Cardinality(DOMAIN v) |-> CHOOSE k \in DOMAIN v : TokenRank(v, k) = i - 1]

\* the beginning tokens without the placeholders: the labels that start with BOS
BeginningTokensMarked(v) == SelectSeq(TokenOrder(v), LAMBDA k : k[1] = BOS)

\* [token for token, token_id in vocab_items if token_id < NUM_BEGINNING_TOKENS]
BeginningTokens(v) == SelectSeq(TokenOrder(v), LAMBDA k : v[k] < NUM_BEGINNING_TOKENS)

\* a quotient count / total, kept as the pair of its terms; 0.0 when total is 0
Prob(count, total) == IF total > 0 THEN <<count, total>> ELSE <<0, 1>>

ProbGreater(p, q) == p[1] * q[2] > q[1] * p[2]

\* key=lambda item: (-probability, token_rank.get(item[0], 10**9))
EntryBefore(v, x, y) ==
    \/ ProbGreater(x.prob, y.prob)
    \/ (~ProbGreater(y.prob, x.prob) /\ TokenRank(v, x.token) < TokenRank(v, y.token))

SortEntries(v, entries) == StableSort(entries, LAMBDA x, y : EntryBefore(v, x, y))

\* ordered_seconds: [second, count, count / first_total], sorted
OrderedSuccessors(v, seconds) ==
    LET first_total == SumCounts(seconds)
    IN  SortEntries(v, [i \in 1..Len(seconds) |->
                           [token |-> seconds[i].key,
                            count |-> seconds[i].count,
                            prob  |-> Prob(seconds[i].count, first_total)]])

RECURSIVE TotalOf(_, _)
\* sum(sum(counter.values()) for counter in counts.values())
TotalOf(counts, keys) ==
    IF keys = {} THEN 0
    ELSE LET k == CHOOSE x \in keys : TRUE
         IN  SumCounts(counts[k]) + TotalOf(counts, keys \ {k})

\* beginning_next_model and beginning_end_model: [first, first_probability, ordered]
BigramModel(v, counts) ==
    LET total  == TotalOf(counts, DOMAIN counts)
        firsts == BeginningTokens(v)
    IN  SortEntries(v, [i \in 1..Len(firsts) |->
            LET seconds == IF InDict(firsts[i], counts) THEN counts[firsts[i]] ELSE <<>>
            IN  [token      |-> firsts[i],
                 prob       |-> Prob(SumCounts(seconds), total),
                 successors |-> OrderedSuccessors(v, seconds)]])

\* the items of `counter` whose key extends `prefix` by one token, as entries
Extensions(counter, prefix, parent_count) ==
    LET n    == Len(prefix) + 1
        hits == SelectSeq(counter, LAMBDA it : SubSeq(it.key, 1, n - 1) = prefix)
    IN  [i \in 1..Len(hits) |->
            [token |-> hits[i].key[n],
             count |-> hits[i].count,
             prob  |-> Prob(hits[i].count, parent_count)]]

WithChildren(entry, children) ==
    [token |-> entry.token, count |-> entry.count, prob |-> entry.prob,
     children |-> children]

\* if len(children) >= 2: entries.append(...)
Branching(entries) == SelectSeq(entries, LAMBDA e : Len(e.children) >= 2)

\* four_gram_model: the four nested loops over the counters, each level sorted
FourGramModel(v, fg, fa, fab, fabc) ==
    LET total == SumCounts(fg)
        DEntries(abc, abc_count) == SortEntries(v, Extensions(fg, abc, abc_count))
        CEntries(ab, ab_count) ==
            LET cs == Extensions(fabc, ab, ab_count)
            IN  SortEntries(v, Branching([i \in 1..Len(cs) |->
                    WithChildren(cs[i], DEntries(Append(ab, cs[i].token), cs[i].count))]))
        BEntries(a, a_count) ==
            LET bs == Extensions(fab, <<a>>, a_count)
            IN  SortEntries(v, Branching([i \in 1..Len(bs) |->
                    WithChildren(bs[i], CEntries(<<a, bs[i].token>>, bs[i].count))]))
        as == [i \in 1..Len(fa) |->
                  WithChildren([token |-> fa[i].key, count |-> fa[i].count,
                                prob |-> Prob(fa[i].count, total)],
                               BEntries(fa[i].key, fa[i].count))]
    IN  SortEntries(v, Branching(as))

\* id_to_token: {str(token_id): token for token, token_id in vocab.items()}
IdToToken(v) ==
    [id \in {v[k] : k \in DOMAIN v} |-> CHOOSE k \in DOMAIN v : v[k] = id]

----------------------------------------------------------------------------
(* main of tokenize.py, from the words read to the two files written *)

MaxWords == 3

\* The words a corpus is drawn from: words of one to four characters over
\* three letters, and a long word whose inner characters run through the
\* four-grams over two letters, so that the four-gram model branches.
FourGramWord ==
    <<"a", "b", "b", "b", "b", "b", "b", "c", "b", "b", "c", "c", "b", "c", "b", "c",
      "c", "c", "c", "b", "b", "b", "b", "c", "c", "a">>

WordPool ==
    { <<"a">>, <<"b">>, <<"a", "b", "a">>, <<"a", "c", "a">>,
      <<"a", "a", "a", "a">>, FourGramWord }

\* the variables of the quantizer and of train_ngram while they do not run
QIdle ==
    /\ q_pc = "off" /\ q_bits = 0 /\ q_temperature = <<1, 1>> /\ q_smoothing_alpha = 0
    /\ q_counts = <<>> /\ q_weights = <<>>

NgIdle ==
    /\ ng_pc = "off" /\ ng_n = 0 /\ ng_start_id = 0 /\ ng_end_id = 0
    /\ ng_lines = <<>> /\ ng_line_index = 0
    /\ ng_counts = <<>> /\ ng_totals = <<>> /\ ng_output = <<>>

\* no earlier run to compare with
RunIdle == hash_seed = 0 /\ first_run = <<>>

\* the state of main's variables while main does not run
MainIdle ==
    /\ pc = "off"
    /\ all_words = <<>>
    /\ beginning_counts = <<>> /\ end_counts = <<>> /\ middle_counts = <<>>
    /\ word_index = 0
    /\ beginning_next_counts = EmptyDict /\ beginning_end_counts = EmptyDict
    /\ four_gram_counts = <<>> /\ four_gram_a_counts = <<>>
    /\ four_gram_ab_counts = <<>> /\ four_gram_abc_counts = <<>>
    /\ model_data = <<>> /\ tokenizer_file = <<>> /\ model_file = <<>>
    /\ exit_code = -1

Init ==
    /\ pc = "read"
    /\ all_words = <<>>
    /\ beginning_counts = <<>> /\ end_counts = <<>> /\ middle_counts = <<>>
    /\ vocab = EmptyDict
    /\ word_index = 0
    /\ beginning_next_counts = EmptyDict /\ beginning_end_counts = EmptyDict
    /\ four_gram_counts = <<>> /\ four_gram_a_counts = <<>>
    /\ four_gram_ab_counts = <<>> /\ four_gram_abc_counts = <<>>
    /\ model_data = <<>> /\ tokenizer_file = <<>> /\ model_file = <<>>
    /\ exit_code = -1
    /\ word = <<>> /\ tokens = <<>> /\ position = 0 /\ tok_pc = "off"
    /\ QIdle /\ NgIdle /\ RunIdle

\* all_words.extend(words): one more word of the input
ReadWord(w) ==
    /\ pc = "read"
    /\ Len(all_words) < MaxWords
    /\ all_words' = Append(all_words, w)
    /\ UNCHANGED <<qVars, ngVars, runVars, pc, word_index, ngramCountVars, transitionVars, outputVars, tokVars>>

\* beginning_counts, end_counts, middle_counts = collect_ngram_counts(all_words)
CollectCounts ==
    /\ pc = "read"
    /\ LET counts == collect_ngram_counts(all_words)
       IN  /\ beginning_counts' = counts.beginning
           /\ end_counts' = counts.end
           /\ middle_counts' = counts.middle
    /\ pc' = "build"
    /\ UNCHANGED <<qVars, ngVars, runVars, all_words, word_index, transitionVars, outputVars, tokVars>>

\* vocab = build_vocabulary(beginning_counts, end_counts, middle_counts)
BuildVocabulary ==
    /\ pc = "build"
    /\ vocab' = build_vocabulary(beginning_counts, end_counts, middle_counts)
    /\ pc' = "train"
    /\ UNCHANGED <<qVars, ngVars, runVars, all_words, word_index, ngramCountVars, transitionVars, outputVars,
                   word, tokens, position, tok_pc>>

\* one iteration of `for word in all_words`
TrainWord ==
    /\ pc = "train"
    /\ word_index < Len(all_words)
    /\ LET w     == all_words[word_index + 1]
           ts    == tokenize_word(w, vocab)
           grams == FourGrams(ts)
       IN  /\ word' = w
           /\ tokens' = ts
           /\ beginning_next_counts' =
                  BigramInc(beginning_next_counts, get_beginning_bigram(ts))
           /\ beginning_end_counts' =
                  BigramInc(beginning_end_counts, get_beginning_end_bigram(ts))
           /\ four_gram_counts' = CounterIncAll(four_gram_counts, grams)
           /\ four_gram_a_counts' =
                  CounterIncAll(four_gram_a_counts, [i \in 1..Len(grams) |-> grams[i][1]])
           /\ four_gram_ab_counts' = CounterIncAll(four_gram_ab_counts, Prefixes(grams, 2))
           /\ four_gram_abc_counts' = CounterIncAll(four_gram_abc_counts, Prefixes(grams, 3))
    /\ word_index' = word_index + 1
    /\ UNCHANGED <<qVars, ngVars, runVars, pc, all_words, ngramCountVars, outputVars, vocab, position, tok_pc>>

\* tokenizer_path.write_text(json.dumps(tokenizer_data))
WriteTokenizer ==
    /\ pc = "train"
    /\ word_index = Len(all_words)
    /\ tokenizer_file' = <<[vocab |-> vocab, id_to_token |-> IdToToken(vocab)]>>
    /\ pc' = "model"
    /\ UNCHANGED <<qVars, ngVars, runVars, all_words, word_index, ngramCountVars, transitionVars,
                   model_data, model_file, exit_code, tokVars>>

\* the three models built and gathered in model_data
BuildModel ==
    /\ pc = "model"
    /\ model_data' =
          <<[total_words    |-> Len(all_words),
             beginning_next |-> BigramModel(vocab, beginning_next_counts),
             beginning_end  |-> BigramModel(vocab, beginning_end_counts),
             four_gram      |-> FourGramModel(vocab, four_gram_counts, four_gram_a_counts,
                                              four_gram_ab_counts, four_gram_abc_counts)]>>
    /\ pc' = "check"
    /\ UNCHANGED <<qVars, ngVars, runVars, all_words, word_index, ngramCountVars, transitionVars,
                   tokenizer_file, model_file, exit_code, tokVars>>

\* if len(beginning_next_model) != NUM_BEGINNING_TOKENS: return 1
\* model_path.write_text(json.dumps(model_data))
WriteModel ==
    /\ pc = "check"
    /\ IF Len(model_data[1].beginning_next) /= NUM_BEGINNING_TOKENS
       THEN /\ exit_code' = 1
            /\ UNCHANGED model_file
       ELSE /\ model_file' = model_data
            /\ exit_code' = 0
    /\ pc' = "exit"
    /\ UNCHANGED <<qVars, ngVars, runVars, all_words, word_index, ngramCountVars, transitionVars,
                   model_data, tokenizer_file, tokVars>>

Next ==
    \/ \E w \in WordPool : ReadWord(w)
    \/ CollectCounts
    \/ BuildVocabulary
    \/ TrainWord
    \/ WriteTokenizer
    \/ BuildModel
    \/ WriteModel

Spec == Init /\ [][Next]_vars

----------------------------------------------------------------------------
(* Properties of main of tokenize.py *)

VocabBuilt == pc \in {"train", "model", "check", "exit"}

Ids(v) == {v[k] : k \in DOMAIN v}

IsPlaceholder(label) ==
    \E idx \in 0..(TOTAL_VOCAB_SIZE - 1) :
        label \in {Placeholder("BEG", idx), Placeholder("END", idx), Placeholder("MID", idx)}

\* the labels of the vocabulary with ids from lo to hi
LabelsIn(v, lo, hi) == {k \in DOMAIN v : v[k] >= lo /\ v[k] <= hi}

\* a band of `capacity` ids from `offset` holds candidates of its own counter
\* and placeholders of its own name, the placeholders in the slots the
\* candidates leave unused
BandFilled(v, counter, band, offset, capacity) ==
    LET labels == LabelsIn(v, offset, offset + capacity - 1)
        real   == {k \in labels : ~IsPlaceholder(k)}
    IN  /\ real \subseteq CounterKeys(counter)
        /\ Cardinality(real) = Min(capacity, Len(counter))
        /\ \A k \in labels \ real :
              /\ v[k] - offset >= Len(counter)
              /\ k = Placeholder(band, v[k] - offset)

\* C1: for every corpus, the empty one included, the vocabulary built has
\* exactly TOTAL_VOCAB_SIZE distinct labels, their ids are exactly
\* 0..TOTAL_VOCAB_SIZE-1, each used once, id_to_token has an entry for every
\* id, and the three bands hold beginning, end and middle candidates in this
\* order, placeholders filling the unused slots.
C1_VocabularySize ==
    VocabBuilt =>
        /\ Cardinality(DOMAIN vocab) = TOTAL_VOCAB_SIZE
        /\ Ids(vocab) = 0..(TOTAL_VOCAB_SIZE - 1)
        /\ \A k1, k2 \in DOMAIN vocab : vocab[k1] = vocab[k2] => k1 = k2
        /\ DOMAIN IdToToken(vocab) = 0..(TOTAL_VOCAB_SIZE - 1)
        /\ BandFilled(vocab, beginning_counts, "BEG", 0, NUM_BEGINNING_TOKENS)
        /\ BandFilled(vocab, end_counts, "END", NUM_BEGINNING_TOKENS, NUM_END_TOKENS)
        /\ BandFilled(vocab, middle_counts, "MID",
                      NUM_BEGINNING_TOKENS + NUM_END_TOKENS, NUM_MIDDLE_TOKENS)

\* a vocabulary with a band that overflowed and a band padded with a placeholder
C1_Witness ==
    /\ VocabBuilt
    /\ Len(beginning_counts) > NUM_BEGINNING_TOKENS
    /\ \E k \in DOMAIN vocab : IsPlaceholder(k)

\* the single-character fallback fires somewhere in tokenize_word(w, v)
RECURSIVE FallbackFiredFrom(_, _, _)
FallbackFiredFrom(w, v, pos) ==
    /\ pos < Len(w)
    /\ \/ ~Search(w, v, pos).found
       \/ FallbackFiredFrom(w, v, pos + LoopBody(w, v, pos).length)

FallbackFired(w, v) == FallbackFiredFrom(w, v, 0)

HasUnknownToken(ts, v) == \E i \in 1..Len(ts) : ~InDict(ts[i], v)

\* a word of the corpus has just been tokenized by the training loop
WordTrained == pc = "train" /\ word_index > 0

\* no band had more candidates than its capacity: build_vocabulary dropped none
NothingDropped ==
    /\ Len(beginning_counts) <= NUM_BEGINNING_TOKENS
    /\ Len(end_counts) <= NUM_END_TOKENS
    /\ Len(middle_counts) <= NUM_MIDDLE_TOKENS

C7_UnknownWordsSkipped ==
    [][(pc = "train" /\ word_index' = word_index + 1 /\ HasUnknownToken(tokens', vocab))
        => UNCHANGED transitionVars]_vars

\* entries in the claimed order: a higher count before a lower one, equal
\* counts in increasing rank
CountThenRankOrder(v, entries) ==
    \A i, j \in 1..Len(entries) :
        i < j => \/ entries[i].count > entries[j].count
                 \/ /\ entries[i].count = entries[j].count
                    /\ TokenRank(v, entries[i].token) < TokenRank(v, entries[j].token)

\* the successor lists of a bigram model hold the raw counts of the counter
\* and are in the claimed order
BigramListsOrdered(v, model, counts) ==
    \A i \in 1..Len(model) :
        /\ \A j \in 1..Len(model[i].successors) :
              /\ InDict(model[i].token, counts)
              /\ model[i].successors[j].count =
                    CounterGet(counts[model[i].token], model[i].successors[j].token)
        /\ CountThenRankOrder(v, model[i].successors)

FourGramListsOrdered(v, model) ==
    /\ CountThenRankOrder(v, model)
    /\ \A a \in 1..Len(model) :
          /\ CountThenRankOrder(v, model[a].children)
          /\ \A b \in 1..Len(model[a].children) :
                /\ CountThenRankOrder(v, model[a].children[b].children)
                /\ \A c \in 1..Len(model[a].children[b].children) :
                      CountThenRankOrder(v, model[a].children[b].children[c].children)

\* C10: in every successor list of the model written, a successor with a
\* strictly higher raw count comes before one with a lower count, and
\* successors with equal counts come in increasing vocabulary rank.
C10_SuccessorOrder ==
    model_file /= <<>> =>
        /\ BigramListsOrdered(vocab, model_file[1].beginning_next, beginning_next_counts)
        /\ BigramListsOrdered(vocab, model_file[1].beginning_end, beginning_end_counts)
        /\ FourGramListsOrdered(vocab, model_file[1].four_gram)

----------------------------------------------------------------------------
(* tokenize_word on any word and any vocabulary, one loop iteration per    *)
(* step.                                                                   *)

MaxTokWordLen == 3

Alphabet == {"a", "b"}

RECURSIVE WordsUpTo(_)
WordsUpTo(n) ==
    IF n = 0 THEN {<<>>}
    ELSE LET shorter == WordsUpTo(n - 1)
         IN  shorter \cup {Append(w, c) : w \in shorter, c \in Alphabet}

\* a word longer than the longest token, next to every short word
LongWord == <<"a", "b", "a", "b", "a", "b", "a">>

TokWords == WordsUpTo(MaxTokWordLen) \cup {LongWord}

\* the labels the vocabularies are drawn from: every form, lengths 1, 2, 6, 7
TokenPool ==
    << <<"^", "a", "$">>, <<"^", "a">>, <<"a", "$">>, <<"a">>,
       <<"^", "a", "b">>, <<"b", "$">>, <<"b">>, <<"a", "b">>,
       <<"^", "a", "b", "a", "b", "a", "b">>,
       <<"^", "a", "b", "a", "b", "a", "b", "a", "$">> >>

VocabOf(S) ==
    [t \in {TokenPool[i] : i \in S} |-> (CHOOSE i \in S : TokenPool[i] = t) - 1]

TokInit ==
    /\ MainIdle /\ QIdle /\ NgIdle /\ RunIdle
    /\ word \in TokWords
    /\ vocab \in {VocabOf(S) : S \in SUBSET (1..Len(TokenPool))}
    /\ tokens = <<>>
    /\ position = 0
    /\ tok_pc = "loop"

\* while position < len(word): ... tokens.append(best_token); position += best_length
TokStep ==
    /\ tok_pc = "loop"
    /\ position < Len(word)
    /\ LET r == LoopBody(word, vocab, position)
       IN  /\ tokens' = Append(tokens, r.token)
           /\ position' = position + r.length
    /\ UNCHANGED <<qVars, ngVars, runVars, word, vocab, tok_pc, mainVars>>

\* return tokens (also the early return for the empty word)
TokReturn ==
    /\ tok_pc = "loop"
    /\ ~(position < Len(word))
    /\ tok_pc' = "returned"
    /\ UNCHANGED <<qVars, ngVars, runVars, word, vocab, tokens, position, mainVars>>

TokNext == TokStep \/ TokReturn

SpecTok == TokInit /\ [][TokNext]_vars

\* the loop of a sequential program keeps running until its condition fails
SpecTokFair == TokInit /\ [][TokNext]_vars /\ WF_vars(TokNext)

----------------------------------------------------------------------------
(* Properties of tokenize_word *)

IsMarker(c) == c = BOS \/ c = EOS

\* a token label with its boundary markers stripped
Surface(token) == SelectSeq(token, LAMBDA c : ~IsMarker(c))

RECURSIVE ConcatSurfaces(_)
ConcatSurfaces(ts) ==
    IF ts = <<>> THEN <<>> ELSE Surface(Head(ts)) \o ConcatSurfaces(Tail(ts))

\* C2: for a non-empty word, after every loop iteration the tokens emitted so
\* far, markers stripped and concatenated, spell word[0:position]; the returned
\* tokens spell the whole word.
C2_RoundTrip ==
    Len(word) > 0 =>
        /\ position <= Len(word)
        /\ ConcatSurfaces(tokens) = SubSeq(word, 1, position)
        /\ tok_pc = "returned" => ConcatSurfaces(tokens) = word

\* a word of three characters or more returned as a matched token of two
\* characters or more followed by further tokens
C2_Witness ==
    /\ tok_pc = "returned"
    /\ Len(word) >= 3
    /\ Len(tokens) >= 2
    /\ \E i \in 1..Len(tokens) : Len(Surface(tokens[i])) >= 2

\* C3: for a non-empty word every loop iteration appends exactly one token and
\* advances the position by 1 to 6 characters without passing the end; the
\* returned list has between 1 and len(word) tokens; and the loop terminates.
C3_Terminates ==
    /\ [][(Len(word) > 0 /\ position' /= position) =>
            /\ Len(tokens') = Len(tokens) + 1
            /\ position' - position \in 1..MAX_TOKEN_LENGTH
            /\ position' <= Len(word)]_vars
    /\ []((Len(word) > 0 /\ tok_pc = "returned") =>
            (Len(tokens) >= 1 /\ Len(tokens) <= Len(word)))
    /\ <>(tok_pc = "returned")

\* the word of seven characters returned, its first token six characters long
C3_Witness ==
    /\ tok_pc = "returned"
    /\ Len(word) > MAX_TOKEN_LENGTH
    /\ Len(Surface(tokens[1])) = MAX_TOKEN_LENGTH

\* C5: the first token returned for a non-empty word starts with the beginning
\* marker (the search at position 0 accepts no end-only or unmarked form).
C5_FirstTokenHasBOS ==
    (Len(word) > 0 /\ Len(tokens) >= 1) => tokens[1][1] = BOS

\* C8: a one-character word c returns exactly one token, which is ^c$ whenever
\* ^c$ is in the vocabulary and otherwise a marked character, never the bare c.
C8_OneCharWord ==
    (Len(word) = 1 /\ tok_pc = "returned") =>
        /\ Len(tokens) = 1
        /\ InDict(<<BOS, word[1], EOS>>, vocab) => tokens[1] = <<BOS, word[1], EOS>>
        /\ tokens[1] \in {<<BOS, word[1], EOS>>, <<BOS, word[1]>>, <<word[1], EOS>>}

----------------------------------------------------------------------------
(* The quantizer: raw successor counts of one context turned into integer  *)
(* weights that sum to max_value = 2^bits - 1.                             *)

MaxBits == 2
MaxSuccessorId == 3
MaxObservations == 4

\* a temperature is a quotient <<numerator, denominator>>; the model draws
\* 1 and 1/2 (and 0, which is rejected), whose powers 1/temperature are whole
Temperatures == {<<1, 1>>, <<1, 2>>, <<0, 1>>}

SmoothingAlphas == {-1, 0, 1}

MaxValue(bits) == 2^bits - 1

\* (rawCount + smoothing_alpha) ^ (1 / temperature)
AdjustedWeight(raw, alpha, temperature) ==
    (raw + alpha)^(temperature[2] \div temperature[1])

RECURSIVE SumField(_, _)
SumField(entries, field) ==
    IF entries = <<>> THEN 0 ELSE Head(entries)[field] + SumField(Tail(entries), field)

\* descending adjusted weight, ties by the rank of the successor
ByAdjusted(x, y) ==
    \/ x.adjusted > y.adjusted
    \/ (x.adjusted = y.adjusted /\ x.successor < y.successor)

\* descending weight, ties by adjusted weight, then by rank
ByWeight(x, y) ==
    \/ x.weight > y.weight
    \/ (x.weight = y.weight /\ ByAdjusted(x, y))

\* steps 2 to 4: the successors sorted, each with its floor and the numerator
\* of the fraction the floor cut off
Floored(counts, max_value, temperature, alpha) ==
    LET n       == Len(counts)
        entries == [i \in 1..n |->
                       [successor |-> counts[i].key,
                        adjusted  |-> AdjustedWeight(counts[i].count, alpha, temperature)]]
        total   == SumField(entries, "adjusted")
        sorted  == StableSort(entries, ByAdjusted)
        base    == IF n >= max_value THEN 0 ELSE 1
        pool    == IF n >= max_value THEN max_value ELSE max_value - n
    IN  [i \in 1..n |->
            [successor |-> sorted[i].successor,
             adjusted  |-> sorted[i].adjusted,
             weight    |-> base + ((sorted[i].adjusted * pool) \div total),
             remainder |-> (sorted[i].adjusted * pool) % total]]

\* the floors alone, without the leftover units
QuantizeFloorsOnly(counts, max_value, temperature, alpha) ==
    LET final == StableSort(Floored(counts, max_value, temperature, alpha), ByWeight)
    IN  [i \in 1..Len(final) |->
            [successor |-> final[i].successor, weight |-> final[i].weight]]

\* step 5: the leftover units go, one each, to the largest remainders; the
\* list is then put back in descending weight
Quantize(counts, max_value, temperature, alpha) ==
    LET floored     == Floored(counts, max_value, temperature, alpha)
        remaining   == max_value - SumField(floored, "weight")
        byRemainder == StableSort(floored, LAMBDA x, y : x.remainder > y.remainder)
        raised      == [i \in 1..Len(byRemainder) |->
                           [byRemainder[i] EXCEPT
                               !.weight = IF i <= remaining THEN @ + 1 ELSE @]]
        final       == StableSort(raised, ByWeight)
    IN  [i \in 1..Len(final) |->
            [successor |-> final[i].successor, weight |-> final[i].weight]]

QInit ==
    /\ MainIdle /\ NgIdle /\ RunIdle
    /\ word = <<>> /\ tokens = <<>> /\ position = 0 /\ tok_pc = "off"
    /\ vocab = EmptyDict
    /\ q_pc = "count"
    /\ q_bits \in 1..MaxBits
    /\ q_temperature \in Temperatures
    /\ q_smoothing_alpha \in SmoothingAlphas
    /\ q_counts = <<>>
    /\ q_weights = <<>>

\* the transition counter sees the context followed by successor s once more
QObserve(s) ==
    /\ q_pc = "count"
    /\ SumCounts(q_counts) < MaxObservations
    /\ q_counts' = CounterInc(q_counts, s)
    /\ UNCHANGED <<q_pc, q_bits, q_temperature, q_smoothing_alpha, q_weights,
                   tokVars, mainVars, ngVars, runVars>>

\* step 1: temperature <= 0 or smoothing_alpha < 0 is rejected, with no output
QReject ==
    /\ q_pc = "count"
    /\ (q_temperature[1] <= 0 \/ q_smoothing_alpha < 0)
    /\ q_pc' = "rejected"
    /\ UNCHANGED <<q_bits, q_temperature, q_smoothing_alpha, q_counts, q_weights,
                   tokVars, mainVars, ngVars, runVars>>

\* the context, observed at least once, is quantized
QQuantize ==
    /\ q_pc = "count"
    /\ ~(q_temperature[1] <= 0 \/ q_smoothing_alpha < 0)
    /\ Len(q_counts) > 0
    /\ q_weights' = Quantize(q_counts, MaxValue(q_bits), q_temperature, q_smoothing_alpha)
    /\ q_pc' = "done"
    /\ UNCHANGED <<q_bits, q_temperature, q_smoothing_alpha, q_counts,
                   tokVars, mainVars, ngVars, runVars>>

QNext == (\E s \in 0..MaxSuccessorId : QObserve(s)) \/ QReject \/ QQuantize

SpecQ == QInit /\ [][QNext]_vars

\* C4: the weights of a quantized context are non-negative integers that sum
\* to exactly max_value = 2^bits - 1, one weight for each observed successor.
C4_WeightsSumToMaxValue ==
    q_pc = "done" =>
        /\ \A i \in 1..Len(q_weights) : q_weights[i].weight \in Nat
        /\ SumField(q_weights, "weight") = MaxValue(q_bits)
        /\ {q_weights[i].successor : i \in 1..Len(q_weights)} = CounterKeys(q_counts)
        /\ Len(q_weights) = Len(q_counts)

\* a context with fewer successors than max_value quantized, leftover units
\* handed out after the floors
C4_Witness ==
    /\ q_pc = "done"
    /\ Len(q_counts) >= 2
    /\ Len(q_counts) < MaxValue(q_bits)
    /\ SumField(Floored(q_counts, MaxValue(q_bits), q_temperature, q_smoothing_alpha),
                "weight") < MaxValue(q_bits)

----------------------------------------------------------------------------
(* train_ngram: n-gram counts over the lines of the input files, written   *)
(* out as one model file.  A token is the sequence of its pieces, so that  *)
(* "##a</w>" is <<"##", "a", "</w>">>; the lines of all input files are    *)
(* taken in reading order as one sequence.                                 *)

MaxN == 2
MaxNgLines == 2

\* token_to_id of a label the tokenizer does not have
None == -1

StartsWith(tok, piece) == Len(tok) > 0 /\ tok[1] = piece

EndsWith(tok, piece) == Len(tok) > 0 /\ tok[Len(tok)] = piece

NgTokens == <<<<"a">>, <<"a", "</w>">>, <<"##", "a">>, <<"##", "a", "</w>">>>>

\* encoding.ids: the id of a token is its place in the tokenizer's vocabulary
NgTokenId(tok) == CHOOSE i \in 1..Len(NgTokens) : NgTokens[i] = tok

\* encoding.tokens of the lines the input files can hold
LinePool ==
    { <<>>,
      << <<"a", "</w>">> >>,
      << <<"a">>, <<"##", "a", "</w>">> >>,
      << <<"a", "</w>">>, <<"a", "</w>">> >>,
      << <<"##", "a", "</w>">> >>,
      << <<"a">>, <<"a", "</w>">> >>,
      << <<"a", "</w>">>, <<"##", "a">> >> }

\* the validation of one token against the token before it
TokenRaises(prev, tok) ==
    IF StartsWith(tok, "##")
    THEN prev = <<"<s>">> \/ EndsWith(prev, "</w>")
    ELSE prev # <<"<s>">> /\ ~EndsWith(prev, "</w>")

\* a validation that lets every token sequence through
LineNeverRaises(token_strs) == FALSE

\* the validation loop raises at the first token that breaks the rule
LineRaises(token_strs) ==
    \E i \in 1..Len(token_strs) :
        TokenRaises(IF i = 1 THEN <<"<s>">> ELSE token_strs[i - 1], token_strs[i])

\* [start_id] * (n - 1) + token_ids + [end_id]
Padded(token_strs, n, start_id, end_id) ==
    [i \in 1..(n - 1) |-> start_id]
        \o [i \in 1..Len(token_strs) |-> NgTokenId(token_strs[i])]
        \o <<end_id>>

\* the (context, next_id) pairs of one line, in order
NgramsOf(toks, n) ==
    [i \in 1..(Len(toks) - n + 1) |->
        [context |-> SubSeq(toks, i, i + n - 2), next_id |-> toks[i + n - 1]]]

\* counts[context][next_id] += 1 for the n-grams from place i on
RECURSIVE CountNgrams(_, _, _)
CountNgrams(counts, grams, i) ==
    IF i > Len(grams) THEN counts
    ELSE LET context == grams[i].context
             at      == {p \in 1..Len(counts) : counts[p].key = context}
             next    == IF at = {}
                        THEN Append(counts, [key |-> context,
                                             count |-> CounterInc(<<>>, grams[i].next_id)])
                        ELSE [p \in 1..Len(counts) |->
                                 IF p \in at
                                 THEN [key |-> context,
                                       count |-> CounterInc(counts[p].count, grams[i].next_id)]
                                 ELSE counts[p]]
         IN  CountNgrams(next, grams, i + 1)

\* totals[context] += 1 for the same n-grams
RECURSIVE CountTotals(_, _, _)
CountTotals(totals, grams, i) ==
    IF i > Len(grams) THEN totals
    ELSE CountTotals(CounterInc(totals, grams[i].context), grams, i + 1)

\* the model: per context, each successor with count / totals[context]
NgramModel(counts, totals) ==
    [p \in 1..Len(counts) |->
        [context |-> counts[p].key,
         successors |->
             [q \in 1..Len(counts[p].count) |->
                 [next_id |-> counts[p].count[q].key,
                  probability |-> <<counts[p].count[q].count,
                                    CounterGet(totals, counts[p].key)>>]]]]

RECURSIVE SeqsUpTo(_, _)
\* the sequences over S of length at most k
SeqsUpTo(S, k) ==
    IF k = 0 THEN {<<>>}
    ELSE LET shorter == SeqsUpTo(S, k - 1)
         IN  shorter \cup {Append(q, x) : q \in shorter, x \in S}

NgInit ==
    /\ MainIdle /\ QIdle /\ RunIdle
    /\ word = <<>> /\ tokens = <<>> /\ position = 0 /\ tok_pc = "off"
    /\ vocab = EmptyDict
    /\ ng_pc = "start"
    /\ ng_n \in 0..MaxN
    /\ ng_start_id \in {None, Len(NgTokens) + 1}
    /\ ng_end_id \in {None, Len(NgTokens) + 2}
    /\ ng_lines \in SeqsUpTo(LinePool, MaxNgLines)
    /\ ng_line_index = 0
    /\ ng_counts = <<>> /\ ng_totals = <<>> /\ ng_output = <<>>

\* lines 46-47
NgCheckN ==
    /\ ng_pc = "start"
    /\ ng_pc' = IF ng_n < 1 THEN "raised" ELSE "load"
    /\ UNCHANGED <<ng_n, ng_start_id, ng_end_id, ng_lines, ng_line_index,
                   ng_counts, ng_totals, ng_output, tokVars, mainVars, qVars, runVars>>

\* lines 49-56
NgLoadTokenizer ==
    /\ ng_pc = "load"
    /\ ng_pc' = IF ng_start_id = None \/ ng_end_id = None THEN "raised" ELSE "lines"
    /\ UNCHANGED <<ng_n, ng_start_id, ng_end_id, ng_lines, ng_line_index,
                   ng_counts, ng_totals, ng_output, tokVars, mainVars, qVars, runVars>>

\* lines 60-82: one line of the input
NgLine ==
    /\ ng_pc = "lines"
    /\ ng_line_index < Len(ng_lines)
    /\ LET token_strs == ng_lines[ng_line_index + 1]
           grams == NgramsOf(Padded(token_strs, ng_n, ng_start_id, ng_end_id), ng_n)
       IN  IF token_strs = <<>>
           THEN /\ ng_line_index' = ng_line_index + 1
                /\ UNCHANGED <<ng_pc, ng_counts, ng_totals>>
           ELSE IF LineRaises(token_strs)
           THEN /\ ng_pc' = "raised"
                /\ UNCHANGED <<ng_line_index, ng_counts, ng_totals>>
           ELSE /\ ng_counts' = CountNgrams(ng_counts, grams, 1)
                /\ ng_totals' = CountTotals(ng_totals, grams, 1)
                /\ ng_line_index' = ng_line_index + 1
                /\ UNCHANGED ng_pc
    /\ UNCHANGED <<ng_n, ng_start_id, ng_end_id, ng_lines, ng_output,
                   tokVars, mainVars, qVars, runVars>>

\* lines 84-95: the input is exhausted, the model is built and written
NgWrite ==
    /\ ng_pc = "lines"
    /\ ng_line_index = Len(ng_lines)
    /\ ng_output' = <<NgramModel(ng_counts, ng_totals)>>
    /\ ng_pc' = "returned"
    /\ UNCHANGED <<ng_n, ng_start_id, ng_end_id, ng_lines, ng_line_index,
                   ng_counts, ng_totals, tokVars, mainVars, qVars, runVars>>

NgNext == NgCheckN \/ NgLoadTokenizer \/ NgLine \/ NgWrite

SpecNgram == NgInit /\ [][NgNext]_vars

RECURSIVE NgramsCounted(_, _)
\* the n-grams of the first k lines: len(token_ids) + 1 for each non-empty line
NgramsCounted(lines, k) ==
    IF k = 0 THEN 0
    ELSE NgramsCounted(lines, k - 1)
             + (IF lines[k] = <<>> THEN 0 ELSE Len(lines[k]) + 1)

\* the continuation rule: a token starts with "##" exactly when the token
\* before it is in the same line and has no "</w>"
ContinuationRule(line) ==
    \A i \in 1..Len(line) :
        StartsWith(line[i], "##") <=> (i > 1 /\ ~EndsWith(line[i - 1], "</w>"))

\* C9: a run of train_ngram that raised has written no model file, and a
\* model file exists only when n >= 1, the tokenizer has <s> and </s>, every
\* line obeys the continuation rule and every line has been counted.
C9_NoPartialModel ==
    /\ ng_pc = "raised" => ng_output = <<>>
    /\ ng_output # <<>> =>
          /\ ng_pc = "returned"
          /\ ng_n >= 1 /\ ng_start_id # None /\ ng_end_id # None
          /\ \A k \in 1..Len(ng_lines) : ContinuationRule(ng_lines[k])
          /\ ng_line_index = Len(ng_lines)
          /\ SumCounts(ng_totals) = NgramsCounted(ng_lines, Len(ng_lines))

\* a run that raised on a later line, after an earlier line was counted
C9_Witness ==
    /\ ng_pc = "raised"
    /\ ng_totals # <<>>
    /\ ng_line_index < Len(ng_lines)
    /\ ng_output = <<>>

----------------------------------------------------------------------------
(* tokenize_word of test_tokenizer.py, the tokenizer used at inference      *)

\* lines 29-53: the four lookups for one length
TestTryLength(w, v, pos, length) ==
    LET substring    == SubSeq(w, pos + 1, pos + length)
        is_beginning == pos = 0
    IN  IF is_beginning /\ pos + length = Len(w)
           /\ InDict(<<BOS>> \o substring \o <<EOS>>, v)
        THEN Hit(<<BOS>> \o substring \o <<EOS>>, length)
        ELSE IF is_beginning /\ InDict(<<BOS>> \o substring, v)
        THEN Hit(<<BOS>> \o substring, length)
        ELSE IF pos + length = Len(w) /\ InDict(substring \o <<EOS>>, v)
        THEN Hit(substring \o <<EOS>>, length)
        ELSE IF InDict(substring, v)
        THEN Hit(substring, length)
        ELSE NoToken

\* line 26: for length in range(min(6, len(word) - position), 0, -1)
RECURSIVE TestSearchFrom(_, _, _, _)
TestSearchFrom(w, v, pos, length) ==
    IF length <= 0 THEN NoToken
    ELSE LET r == TestTryLength(w, v, pos, length)
         IN  IF r.found THEN r ELSE TestSearchFrom(w, v, pos, length - 1)

\* a fallback that marks the first character only
TestFallbackNoEnd(w, pos) ==
    IF pos = 0 THEN [found |-> FALSE, token |-> <<BOS, w[pos + 1]>>, length |-> 1]
    ELSE [found |-> FALSE, token |-> <<w[pos + 1]>>, length |-> 1]

\* lines 55-62: the fallback, with `position == len(word) - 1` written out
TestFallback(w, pos) ==
    IF pos = 0 THEN [found |-> FALSE, token |-> <<BOS, w[pos + 1]>>, length |-> 1]
    ELSE IF pos = Len(w) - 1
    THEN [found |-> FALSE, token |-> <<w[pos + 1], EOS>>, length |-> 1]
    ELSE [found |-> FALSE, token |-> <<w[pos + 1]>>, length |-> 1]

\* lines 21-65: one iteration of the while loop
TestLoopBody(w, v, pos) ==
    LET r == TestSearchFrom(w, v, pos, Min(6, Len(w) - pos))
    IN  IF r.found THEN r ELSE TestFallback(w, pos)

RECURSIVE TestTokenizeFrom(_, _, _, _)
TestTokenizeFrom(w, v, pos, acc) ==
    IF pos < Len(w)
    THEN LET r == TestLoopBody(w, v, pos)
         IN  TestTokenizeFrom(w, v, pos + r.length, Append(acc, r.token))
    ELSE acc

test_tokenize_word(w, v) ==
    IF Len(w) = 0 THEN <<>> ELSE TestTokenizeFrom(w, v, 0, <<>>)

\* C11: for every word, the empty one included, and every vocabulary, the
\* tokenize_word of tokenize.py and the tokenize_word of test_tokenizer.py
\* return the same token list.
C11_SameTokenizer ==
    /\ tokenize_word(word, vocab) = test_tokenize_word(word, vocab)
    /\ tok_pc = "returned" => tokens = test_tokenize_word(word, vocab)

\* a word returned whose last token came from the end branch of the fallback,
\* after a matched token
C11_Witness ==
    /\ tok_pc = "returned"
    /\ Len(tokens) >= 2
    /\ Search(word, vocab, 0).found
    /\ ~Search(word, vocab, Len(word) - 1).found
    /\ tokens[Len(tokens)] = <<word[Len(word)], EOS>>

----------------------------------------------------------------------------
(* main of tokenize.py run twice on the same word list, each run in a      *)
(* process of its own, with its own string hash seed                       *)

MaxRunWords == 2

HashSeeds == {0, 1}

\* what a run leaves behind: its vocabulary, its transition tables, its files
RunResult ==
    [all_words             |-> all_words,
     hash_seed             |-> hash_seed,
     vocab                 |-> vocab,
     beginning_next_counts |-> beginning_next_counts,
     beginning_end_counts  |-> beginning_end_counts,
     four_gram_counts      |-> four_gram_counts,
     four_gram_a_counts    |-> four_gram_a_counts,
     four_gram_ab_counts   |-> four_gram_ab_counts,
     four_gram_abc_counts  |-> four_gram_abc_counts,
     tokenizer_file        |-> tokenizer_file,
     model_file            |-> model_file]

\* the first run, its words read (lines 207-211)
TwiceInit ==
    /\ pc = "read"
    /\ all_words \in SeqsUpTo(WordPool, MaxRunWords)
    /\ hash_seed \in HashSeeds
    /\ first_run = <<>>
    /\ beginning_counts = <<>> /\ end_counts = <<>> /\ middle_counts = <<>>
    /\ vocab = EmptyDict
    /\ word_index = 0
    /\ beginning_next_counts = EmptyDict /\ beginning_end_counts = EmptyDict
    /\ four_gram_counts = <<>> /\ four_gram_a_counts = <<>>
    /\ four_gram_ab_counts = <<>> /\ four_gram_abc_counts = <<>>
    /\ model_data = <<>> /\ tokenizer_file = <<>> /\ model_file = <<>>
    /\ exit_code = -1
    /\ word = <<>> /\ tokens = <<>> /\ position = 0 /\ tok_pc = "off"
    /\ QIdle /\ NgIdle

\* the first run has ended; a second process starts on the same input, to
\* another output directory, and has read the same words
RunAgain ==
    /\ pc = "exit"
    /\ first_run = <<>>
    /\ first_run' = <<RunResult>>
    /\ hash_seed' \in HashSeeds
    /\ pc' = "read"
    /\ beginning_counts' = <<>> /\ end_counts' = <<>> /\ middle_counts' = <<>>
    /\ vocab' = EmptyDict
    /\ word_index' = 0
    /\ beginning_next_counts' = EmptyDict /\ beginning_end_counts' = EmptyDict
    /\ four_gram_counts' = <<>> /\ four_gram_a_counts' = <<>>
    /\ four_gram_ab_counts' = <<>> /\ four_gram_abc_counts' = <<>>
    /\ model_data' = <<>> /\ tokenizer_file' = <<>> /\ model_file' = <<>>
    /\ exit_code' = -1
    /\ word' = <<>> /\ tokens' = <<>>
    /\ UNCHANGED <<all_words, position, tok_pc, qVars, ngVars>>

TwiceNext ==
    \/ CollectCounts
    \/ BuildVocabulary
    \/ TrainWord
    \/ WriteTokenizer
    \/ BuildModel
    \/ WriteModel
    \/ RunAgain

SpecTwice == TwiceInit /\ [][TwiceNext]_vars

----------------------------------------------------------------------------
(* Properties of collect_ngram_counts and build_vocabulary *)

CountsCollected == pc \in {"build", "train", "model", "check", "exit"}

\* C13: for each word of the corpus and each length k in 1..min(6, len(word)),
\* the prefix of length k is a beginning candidate, in whole-word form (with
\* both markers) when it covers the whole word, and the suffix of length k is
\* an end candidate.
C13_WholeWordCandidate ==
    CountsCollected =>
        \A i \in 1..Len(all_words) :
            LET w == all_words[i]
            IN  \A k \in 1..Min(MAX_TOKEN_LENGTH, Len(w)) :
                    /\ (IF k = Len(w) THEN <<BOS>> \o w \o <<EOS>>
                        ELSE <<BOS>> \o SubSeq(w, 1, k))
                           \in CounterKeys(beginning_counts)
                    /\ (SubSeq(w, Len(w) - k + 1, Len(w)) \o <<EOS>>)
                           \in CounterKeys(end_counts)

----------------------------------------------------------------------------
(* The order of the search of tokenize_word *)

\* the forms of word[pos : pos + length] that are looked up at this position,
\* in the order of the lookups: whole-word, beginning, end, unmarked
FormsAt(w, pos, length) ==
    LET sub == SubSeq(w, pos + 1, pos + length)
    IN  (IF pos = 0 /\ pos + length = Len(w) THEN << <<BOS>> \o sub \o <<EOS>> >> ELSE <<>>)
        \o (IF pos = 0 THEN << <<BOS>> \o sub >> ELSE <<>>)
        \o (IF pos + length = Len(w) THEN << sub \o <<EOS>> >> ELSE <<>>)
        \o << sub >>

\* the lengths at which some form is a key of the vocabulary
HitLengths(w, v, pos) ==
    {l \in 1..Min(MAX_TOKEN_LENGTH, Len(w) - pos) :
        \E f \in 1..Len(FormsAt(w, pos, l)) : InDict(FormsAt(w, pos, l)[f], v)}

\* the first form, in lookup order, of the greatest length with a hit
GreedyChoice(w, v, pos) ==
    LET best  == CHOOSE l \in HitLengths(w, v, pos) :
                     \A m \in HitLengths(w, v, pos) : m <= l
        forms == FormsAt(w, pos, best)
        first == CHOOSE f \in 1..Len(forms) :
                     /\ InDict(forms[f], v)
                     /\ \A g \in 1..(f - 1) : ~InDict(forms[g], v)
    IN  [token |-> forms[first], length |-> best]

\* C14: whenever some form of some length up to min(6, remaining characters)
\* is in the vocabulary, the loop iteration appends the first form, in the
\* order whole-word, beginning, end, unmarked, of the greatest such length,
\* and consumes that length.
C14_GreedyLongestMatch ==
    [][(position' /= position /\ HitLengths(word, vocab, position) /= {}) =>
          /\ tokens' = Append(tokens, GreedyChoice(word, vocab, position).token)
          /\ position' = position + GreedyChoice(word, vocab, position).length]_vars

\* a word returned whose first token is an unmarked form of two characters,
\* taken although the beginning form of its first character is in the
\* vocabulary
C14_Witness ==
    /\ tok_pc = "returned"
    /\ Len(word) >= 3
    /\ tokens[1] = SubSeq(word, 1, 2)
    /\ InDict(<<BOS, word[1]>>, vocab)

\* the places, in the counter, of the candidates the band kept
KeptPlaces(v, counter, offset, capacity) ==
    {i \in 1..Len(counter) :
        /\ InDict(counter[i].key, v)
        /\ v[counter[i].key] >= offset
        /\ v[counter[i].key] < offset + capacity}

\* a band keeps its most frequent candidates and numbers them from its offset
\* by falling count, equal counts in the order first seen
BandRanked(v, counter, offset, capacity) ==
    LET kept == KeptPlaces(v, counter, offset, capacity)
    IN  /\ Cardinality(kept) = Min(capacity, Len(counter))
        /\ {v[counter[i].key] : i \in kept} = offset..(offset + Cardinality(kept) - 1)
        /\ \A i, j \in kept :
              /\ counter[i].count > counter[j].count
                    => v[counter[i].key] < v[counter[j].key]
              /\ (counter[i].count = counter[j].count /\ i < j)
                    => v[counter[i].key] < v[counter[j].key]
        /\ \A i \in kept : \A j \in (1..Len(counter)) \ kept :
              /\ counter[j].count <= counter[i].count
              /\ counter[j].count = counter[i].count => i < j

\* C15: in each band the capacity-many most frequent candidates are kept and
\* get the ids from the band's offset on in falling count; of two kept tokens
\* the one with the higher count, or with the same count and seen first, has
\* the smaller id; a dropped candidate has no higher count than a kept one,
\* and at an equal count it was seen later.
C15_BandRanking ==
    VocabBuilt =>
        /\ BandRanked(vocab, beginning_counts, 0, NUM_BEGINNING_TOKENS)
        /\ BandRanked(vocab, end_counts, NUM_BEGINNING_TOKENS, NUM_END_TOKENS)
        /\ BandRanked(vocab, middle_counts,
                      NUM_BEGINNING_TOKENS + NUM_END_TOKENS, NUM_MIDDLE_TOKENS)

\* a beginning band that kept a candidate seen later than a dropped one with
\* a lower count, and cut between two candidates of equal count
C15_Witness ==
    /\ VocabBuilt
    /\ LET kept == KeptPlaces(vocab, beginning_counts, 0, NUM_BEGINNING_TOKENS)
           rest == (1..Len(beginning_counts)) \ kept
       IN  /\ \E i \in kept, j \in rest :
                 j < i /\ beginning_counts[j].count < beginning_counts[i].count
           /\ \E i \in kept, j \in rest :
                 beginning_counts[j].count = beginning_counts[i].count

----------------------------------------------------------------------------
(* The tokens of the fallback *)

\* ^c, c$ or c
IsSingleCharToken(t) ==
    /\ Len(Surface(t)) = 1
    /\ t \in {<<BOS>> \o Surface(t), Surface(t) \o <<EOS>>, Surface(t)}

\* C16: a token appended by the single-character fallback is not a key of the
\* vocabulary; every token of an output is a key of the vocabulary or a
\* one-character token that is not; and a returned output has an unknown
\* token exactly when the fallback fired.
C16_FallbackTokensUnknown ==
    /\ [][(position' /= position /\ ~Search(word, vocab, position).found) =>
             /\ ~InDict(tokens'[Len(tokens')], vocab)
             /\ IsSingleCharToken(tokens'[Len(tokens')])]_vars
    /\ [](\A i \in 1..Len(tokens) :
             InDict(tokens[i], vocab) \/ IsSingleCharToken(tokens[i]))
    /\ [](tok_pc = "returned" =>
             (HasUnknownToken(tokens, vocab) <=> FallbackFired(word, vocab)))

\* a word returned with a matched token and, after it, a fallback token whose
\* character is in the vocabulary in another form
C16_Witness ==
    /\ tok_pc = "returned"
    /\ Len(tokens) >= 2
    /\ InDict(tokens[1], vocab)
    /\ ~InDict(tokens[Len(tokens)], vocab)
    /\ InDict(<<BOS>> \o Surface(tokens[Len(tokens)]), vocab)

----------------------------------------------------------------------------
(* The places of the boundary markers *)

Carries(token, marker) == \E k \in 1..Len(token) : token[k] = marker

\* C17: a token with the beginning marker is the first token; a token with
\* the end marker is the last token emitted and the word is consumed to its
\* final character with it; in a returned output no token between the first
\* and the last carries a marker.
C17_MarkerPlacement ==
    /\ \A i \in 1..Len(tokens) :
          /\ Carries(tokens[i], BOS) => i = 1
          /\ Carries(tokens[i], EOS) => (i = Len(tokens) /\ position = Len(word))
    /\ tok_pc = "returned" =>
          \A i \in 2..(Len(tokens) - 1) :
              ~Carries(tokens[i], BOS) /\ ~Carries(tokens[i], EOS)

\* an output of three tokens or more, the first with the beginning marker,
\* the last with the end marker, one in between a key of the vocabulary
C17_Witness ==
    /\ tok_pc = "returned"
    /\ Len(tokens) >= 3
    /\ Carries(tokens[1], BOS)
    /\ Carries(tokens[Len(tokens)], EOS)
    /\ InDict(tokens[2], vocab)
    /\ InDict(tokens[2] \o <<EOS>>, vocab)

----------------------------------------------------------------------------
(* main of tokenize.py from the vocabulary to its end *)

\* C18: the beginning_next model has exactly NUM_BEGINNING_TOKENS entries, one
\* for the label of each id below NUM_BEGINNING_TOKENS; main never takes the
\* error return; the model file is written only after the tokenizer file; a
\* run that has built its vocabulary always has its next step to take (in the
\* training loop another word or the writing of the tokenizer file, then the
\* building of the model, then its writing), and at its end both files are
\* written.
C18_BothFilesWritten ==
    /\ [](model_data /= <<>> =>
            /\ Len(model_data[1].beginning_next) = NUM_BEGINNING_TOKENS
            /\ {model_data[1].beginning_next[i].token :
                    i \in 1..Len(model_data[1].beginning_next)}
                   = LabelsIn(vocab, 0, NUM_BEGINNING_TOKENS - 1))
    /\ [](exit_code /= 1)
    /\ [][model_file' /= model_file => tokenizer_file /= <<>>]_vars
    /\ [](VocabBuilt => pc \in {"train", "model", "check", "exit"})
    /\ [](pc = "train" => (word_index < Len(all_words) \/ ENABLED WriteTokenizer))
    /\ [](pc = "check" => ENABLED WriteModel)
    /\ [](pc = "exit" => (tokenizer_file /= <<>> /\ model_file /= <<>> /\ exit_code = 0))

\* a run ended with both files written, its beginning band holding both
\* tokens of the corpus and placeholders
C18_Witness ==
    /\ pc = "exit"
    /\ tokenizer_file /= <<>>
    /\ model_file /= <<>>
    /\ \E k \in LabelsIn(vocab, 0, NUM_BEGINNING_TOKENS - 1) : IsPlaceholder(k)
    /\ \E k \in LabelsIn(vocab, 0, NUM_BEGINNING_TOKENS - 1) : ~IsPlaceholder(k)

====
